---- MODULE Spec2Model ----
(***************************************************************************)
(* redlines/processor.py: the tokenizer, the paragraph normalizer and      *)
(* WholeDocumentProcessor.process, with the difflib.SequenceMatcher the    *)
(* processor aligns its two token sequences with.                          *)
(*                                                                         *)
(* A text is a sequence of one-character strings, a token is a text, and a *)
(* token list is a sequence of tokens.  Indices into token lists are the   *)
(* 0-based indices of the Python code; element i of a list s is s[i + 1].  *)
(*                                                                         *)
(* The SPACY branch of tokenize_text hands the text to the spaCy English   *)
(* pipeline, a library whose rules are not part of this module; the        *)
(* tokenizer choice ranges over REGEX and values that are no TokenizerType.*)
(***************************************************************************)
EXTENDS Integers, Sequences, FiniteSets, TLC

VARIABLES
    self_source,     \* WholeDocumentProcessor.source (NoAttr until assigned)
    self_test,       \* WholeDocumentProcessor.test
    tokenizer_type,  \* WholeDocumentProcessor.tokenizer_type
    pc,              \* per caller: the line of process it is about to run
    arg_source,      \* per caller: the source argument of its process call
    arg_test,        \* per caller: the test argument of its process call
    seq_source,      \* per caller: the local seq_source
    seq_test,        \* per caller: the local seq_test
    ret,             \* per caller: the list process returned
    exc,             \* per caller: the exception process raised
    tt_pc,           \* a direct tokenize_text call: "call", "returned", "raised", "idle"
    tt_text,         \* its text argument
    tt_choice,       \* its choice argument
    tt_ret,          \* the token list it returned
    tt_exc           \* the exception it raised

vars == <<self_source, self_test, tokenizer_type, pc, arg_source, arg_test,
          seq_source, seq_test, ret, exc, tt_pc, tt_text, tt_choice, tt_ret, tt_exc>>

-----------------------------------------------------------------------------
(* Bounds of the model *)

\* longest text, in characters, of the general specification
MaxLen == 3
\* longest text of parentheses (one token each) of the alignment specification
MaxParens == 5
\* how many tokens short of / past the autojunk threshold the long tests reach
LongSpread == 1

-----------------------------------------------------------------------------
(* Values *)

REGEX == "regex"
NoAttr == "<unset>"
None == "<none>"
chr_182 == "chr182"

\* \s of the re module, within the characters the model uses
IsSpace(c) == c \in {" ", "\n", "\t"}
IsParen(c) == c \in {"(", ")"}

Min(S) == CHOOSE x \in S : \A y \in S : x <= y

\* The index of the first character at or after p that is not in the class
\* (Len(text) + 1 when the run reaches the end): the end of a greedy run.
RunEnd(text, p, InClass(_)) ==
    Min({q \in p..(Len(text) + 1) : q = Len(text) + 1 \/ ~InClass(text[q])})

\* A loop that runs at most n times: Step applied n times to s, Step leaving a
\* state past the loop's end as it is.  (The tests v = v only fix the order of
\* evaluation: the state is computed before the steps that read it.)
RECURSIVE IterateFrom(_, _, _)
IterateFrom(Step(_), n, s) ==
    IF n = 0 THEN s
    ELSE IF n = 1 THEN Step(s)
    ELSE LET half == IterateFrom(Step, n \div 2, s)
         IN IF half = half THEN IterateFrom(Step, n - (n \div 2), half) ELSE s

Iterate(Step(_), n, s) == IF s = s THEN IterateFrom(Step, n, s) ELSE s

Concat(ss) ==
    LET RECURSIVE cat(_)
        cat(k) == IF k > Len(ss) THEN <<>> ELSE ss[k] \o cat(k + 1)
    IN cat(1)

-----------------------------------------------------------------------------
\* tokenizer: a run of characters that are neither parentheses nor whitespace,
\* or one character of ( ) . ? ! - , followed by any whitespace.

IsWordChar(c) == ~IsParen(c) /\ ~IsSpace(c)
IsPunct(c) == c \in {"(", ")", ".", "?", "!", "-"}

\* The end (exclusive) of the match of the pattern at p, 0 when there is none.
tokenizer_match(text, p) ==
    LET body == IF IsWordChar(text[p]) THEN RunEnd(text, p, IsWordChar)
                ELSE IF IsPunct(text[p]) THEN p + 1
                ELSE 0
    IN IF body = 0 THEN 0 ELSE RunEnd(text, body, IsSpace)

\* re.findall(tokenizer, text): the matches left to right, a position with no
\* match skipped.
tokenizer_findall(text) ==
    LET scan(s) ==
            IF s.p > Len(text) THEN s
            ELSE LET e == tokenizer_match(text, s.p)
                 IN IF e = 0 THEN [p |-> s.p + 1, acc |-> s.acc]
                    ELSE [p |-> e, acc |-> Append(s.acc, SubSeq(text, s.p, e - 1))]
    IN Iterate(scan, Len(text), [p |-> 1, acc |-> <<>>]).acc

ValueError(choice) == <<"ValueError", "Invalid choice: ", choice>>

\* tokenize_text: the token list, or the exception raised.
tokenize_text_raises(choice) == choice # REGEX

tokenize_text(text, choice) ==
    IF choice = REGEX THEN tokenizer_findall(text)
    ELSE ValueError(choice)

-----------------------------------------------------------------------------
(* split_paragraphs and concatenate_paragraphs_and_add_chr_182 *)

IsNewlineOrBlank(c) == c \in {"\n", " "}

\* re.split(paragraph_pattern, text): paragraph_pattern matches a newline and
\* the blanks after it, one or more times.  The result holds the pieces between
\* the matches and, the pattern being one capturing group, the matches too.
RECURSIVE paragraph_pattern_split(_, _, _)
paragraph_pattern_split(text, p, acc) ==
    LET nls == {q \in p..Len(text) : text[q] = "\n"}
    IN IF nls = {} THEN Append(acc, SubSeq(text, p, Len(text)))
       ELSE LET s == Min(nls)
                e == RunEnd(text, s, IsNewlineOrBlank)
            IN paragraph_pattern_split(text, e,
                   acc \o <<SubSeq(text, p, s - 1), SubSeq(text, s, e - 1)>>)

\* re.fullmatch(space_pattern, s): s is one or more whitespace characters
space_pattern_fullmatch(s) == Len(s) > 0 /\ \A k \in 1..Len(s) : IsSpace(s[k])

\* str.strip()
strip(s) ==
    LET keep == {k \in 1..Len(s) : ~IsSpace(s[k])}
    IN IF keep = {} THEN <<>>
       ELSE SubSeq(s, Min(keep), CHOOSE k \in keep : \A m \in keep : m <= k)

\* mutant of split_paragraphs: the empty and the whitespace-only pieces are kept
split_paragraphs_unfiltered(text) ==
    LET split_text == paragraph_pattern_split(text, 1, <<>>)
    IN [k \in 1..Len(split_text) |-> strip(split_text[k])]

split_paragraphs(text) ==
    LET split_text == paragraph_pattern_split(text, 1, <<>>)
        RECURSIVE loop(_, _)
        loop(k, result) ==
            IF k > Len(split_text) THEN result
            ELSE LET s == split_text[k]
                 IN IF Len(s) > 0 /\ ~space_pattern_fullmatch(s)
                    THEN loop(k + 1, Append(result, strip(s)))
                    ELSE loop(k + 1, result)
    IN loop(1, <<>>)

concatenate_paragraphs_and_add_chr_182(text) ==
    LET paragraphs == split_paragraphs(text)
        RECURSIVE loop(_, _)
        loop(k, result) ==
            IF k > Len(paragraphs) THEN result
            ELSE loop(k + 1, result \o <<paragraphs[k], <<" ", chr_182, " ">> >>)
        filled == loop(1, <<>>)
        result == IF Len(paragraphs) > 0 THEN SubSeq(filled, 1, Len(filled) - 1)
                  ELSE filled
    IN Concat(result)

-----------------------------------------------------------------------------
(* difflib.SequenceMatcher(None, a, b): isjunk is None, autojunk is True.   *)
(* The matcher is the one of Python's standard library (Lib/difflib.py),   *)
(* which process constructs and asks for its opcodes.                      *)

\* the length of b from which SequenceMatcher drops its popular elements
autojunk_min_len == 200

Match(i, j, k) == <<i, j, k>>

\* __chain_b: b2j maps each element of b to the ascending list of its indices;
\* no element is junk (isjunk is None), and with n >= 200 the elements that
\* occur more than n // 100 + 1 times are popular and leave b2j.
chain_b(b) ==
    LET n == Len(b)
        elts == {b[k] : k \in 1..n}
        indices(elt) == SelectSeq([k \in 1..n |-> k - 1], LAMBDA j : b[j + 1] = elt)
        ntest == (n \div 100) + 1
        popular == IF n >= autojunk_min_len
                   THEN {elt \in elts : Len(indices(elt)) > ntest}
                   ELSE {}
    IN [b2j |-> [elt \in elts \ popular |-> indices(elt)],
        bjunk |-> {},
        bpopular |-> popular]

\* dict.get(key, default)
DictGet(d, key, default) == IF key \in DOMAIN d THEN d[key] ELSE default

\* One step of the loops of find_longest_match,
\*     for i in range(alo, ahi): for j in b2j.get(a[i], nothing): ...
\* s.x is the place of j in the list b2j[a[i]]; past the list's end, or at an
\* index >= bhi (the break), the row ends: j2len = newj2len and i moves on.
longest_row_step(a, b2j, ahi, blo, bhi, s) ==
    IF s.i >= ahi THEN s
    ELSE LET js == DictGet(b2j, a[s.i + 1], <<>>)
         IN IF s.x > Len(js) \/ js[s.x] >= bhi
            THEN [i |-> s.i + 1, x |-> 1, j2len |-> s.newj2len, newj2len |-> <<>>,
                  best |-> s.best]
            ELSE IF js[s.x] < blo THEN [s EXCEPT !.x = s.x + 1]
            ELSE LET k == DictGet(s.j2len, js[s.x] - 1, 0) + 1
                 IN [s EXCEPT !.x = s.x + 1,
                              !.newj2len = (js[s.x] :> k) @@ s.newj2len,
                              !.best = IF k > s.best[3]
                                       THEN Match(s.i - k + 1, js[s.x] - k + 1, k)
                                       ELSE s.best]

\* One step of the while loops that extend the match m to the left: by an
\* element that is not junk (junk = FALSE), then by a junk one (junk = TRUE).
extend_before_step(a, b, bjunk, alo, blo, junk, m) ==
    IF m[1] > alo /\ m[2] > blo
       /\ (b[m[2]] \in bjunk) = junk
       /\ a[m[1]] = b[m[2]]
    THEN Match(m[1] - 1, m[2] - 1, m[3] + 1)
    ELSE m

\* One step of the while loops that extend the match m to the right.
extend_after_step(a, b, bjunk, ahi, bhi, junk, m) ==
    IF m[1] + m[3] < ahi /\ m[2] + m[3] < bhi
       /\ (b[m[2] + m[3] + 1] \in bjunk) = junk
       /\ a[m[1] + m[3] + 1] = b[m[2] + m[3] + 1]
    THEN Match(m[1], m[2], m[3] + 1)
    ELSE m

extend_before(a, b, bjunk, alo, ahi, blo, junk, m) ==
    Iterate(LAMBDA c : extend_before_step(a, b, bjunk, alo, blo, junk, c), ahi - alo, m)

extend_after(a, b, bjunk, alo, ahi, bhi, junk, m) ==
    Iterate(LAMBDA c : extend_after_step(a, b, bjunk, ahi, bhi, junk, c), ahi - alo, m)

\* find_longest_match(alo, ahi, blo, bhi) of the matcher of a and b, cb its
\* chain_b(b).  Every step of the first loop ends a row or passes one index of b.
find_longest_match(a, b, cb, alo, ahi, blo, bhi) ==
    extend_after(a, b, cb.bjunk, alo, ahi, bhi, TRUE,
      extend_before(a, b, cb.bjunk, alo, ahi, blo, TRUE,
        extend_after(a, b, cb.bjunk, alo, ahi, bhi, FALSE,
          extend_before(a, b, cb.bjunk, alo, ahi, blo, FALSE,
            Iterate(LAMBDA s : longest_row_step(a, cb.b2j, ahi, blo, bhi, s),
                    (ahi - alo) + (ahi - alo) * Len(b),
                    [i |-> alo, x |-> 1, j2len |-> <<>>, newj2len |-> <<>>,
                     best |-> Match(alo, blo, 0)]).best))))

\* tuple comparison of list.sort()
MatchLess(x, y) ==
    \/ x[1] < y[1]
    \/ x[1] = y[1] /\ x[2] < y[2]
    \/ x[1] = y[1] /\ x[2] = y[2] /\ x[3] < y[3]

RECURSIVE SortMatches(_)
SortMatches(S) ==
    IF S = {} THEN <<>>
    ELSE LET m == CHOOSE x \in S : \A y \in S \ {x} : MatchLess(x, y)
         IN <<m>> \o SortMatches(S \ {m})

\* The body of "while queue:" after the pop of q = (alo, ahi, blo, bhi), x the
\* longest match in q: the queue (a stack) and matching_blocks after it.
queue_step(rest, matching_blocks, q, x) ==
    IF x[3] = 0 THEN [queue |-> rest, matching_blocks |-> matching_blocks]
    ELSE [queue |-> rest
                    \o (IF q[1] < x[1] /\ q[3] < x[2]
                        THEN << <<q[1], x[1], q[3], x[2]>> >> ELSE <<>>)
                    \o (IF x[1] + x[3] < q[2] /\ x[2] + x[3] < q[4]
                        THEN << <<x[1] + x[3], q[2], x[2] + x[3], q[4]>> >> ELSE <<>>),
          matching_blocks |-> Append(matching_blocks, x)]

queue_pop(a, b, cb, w) ==
    IF Len(w.queue) = 0 THEN w
    ELSE queue_step(SubSeq(w.queue, 1, Len(w.queue) - 1), w.matching_blocks,
                    w.queue[Len(w.queue)],
                    find_longest_match(a, b, cb, w.queue[Len(w.queue)][1],
                                       w.queue[Len(w.queue)][2],
                                       w.queue[Len(w.queue)][3],
                                       w.queue[Len(w.queue)][4]))

\* "while queue:" from queue = [(0, la, 0, lb)]: a region is popped for each
\* block found and for the regions left empty-handed, 2 * min(la, lb) + 1 at most.
find_blocks(a, b, cb) ==
    Iterate(LAMBDA w : queue_pop(a, b, cb, w), 2 * Len(a) + 1,
            [queue |-> << <<0, Len(a), 0, Len(b)>> >>, matching_blocks |-> <<>>]
           ).matching_blocks

\* the loop that collapses adjacent blocks of the sorted list
RECURSIVE collapse(_, _, _, _)
collapse(sorted, x, cur, non_adjacent) ==
    IF x > Len(sorted)
    THEN IF cur[3] # 0 THEN Append(non_adjacent, cur) ELSE non_adjacent
    ELSE IF cur[1] + cur[3] = sorted[x][1] /\ cur[2] + cur[3] = sorted[x][2]
    THEN collapse(sorted, x + 1, Match(cur[1], cur[2], cur[3] + sorted[x][3]),
                  non_adjacent)
    ELSE collapse(sorted, x + 1, sorted[x],
                  IF cur[3] # 0 THEN Append(non_adjacent, cur) ELSE non_adjacent)

SeqRange(s) == {s[x] : x \in 1..Len(s)}

get_matching_blocks(a, b) ==
    Append(collapse(SortMatches(SeqRange(find_blocks(a, b, chain_b(b)))),
                    1, Match(0, 0, 0), <<>>),
           Match(Len(a), Len(b), 0))

opcode_tag(i, j, ai, bj) ==
    IF i < ai /\ j < bj THEN "replace"
    ELSE IF i < ai THEN "delete"
    ELSE IF j < bj THEN "insert"
    ELSE ""

\* the loop of get_opcodes over the matching blocks
RECURSIVE opcodes_loop(_, _, _, _, _)
opcodes_loop(blocks, x, i, j, answer) ==
    IF x > Len(blocks) THEN answer
    ELSE opcodes_loop(blocks, x + 1, blocks[x][1] + blocks[x][3],
                      blocks[x][2] + blocks[x][3],
                      answer
                      \o (IF opcode_tag(i, j, blocks[x][1], blocks[x][2]) # ""
                          THEN << <<opcode_tag(i, j, blocks[x][1], blocks[x][2]),
                                    i, blocks[x][1], j, blocks[x][2]>> >>
                          ELSE <<>>)
                      \o (IF blocks[x][3] # 0
                          THEN << <<"equal", blocks[x][1], blocks[x][1] + blocks[x][3],
                                    blocks[x][2], blocks[x][2] + blocks[x][3]>> >>
                          ELSE <<>>))

get_opcodes(a, b) == opcodes_loop(get_matching_blocks(a, b), 1, 0, 0, <<>>)

-----------------------------------------------------------------------------
(* WholeDocumentProcessor.process *)

Chunk(text, chunk_location) == [text |-> text, chunk_location |-> chunk_location]

Redline(source_chunk, test_chunk, opcodes) ==
    [source_chunk |-> source_chunk, test_chunk |-> test_chunk, opcodes |-> opcodes]

\* mutants of matcher_get_opcodes: the two sequences swapped, the source
\* given twice, the second sequence left out (b defaults to the empty one)
matcher_get_opcodes_swapped(ss, st) == get_opcodes(st, ss)
matcher_get_opcodes_twice(ss, st) == get_opcodes(ss, ss)
matcher_get_opcodes_no_b(ss, st) == get_opcodes(ss, <<>>)

\* matcher = SequenceMatcher(None, seq_source, seq_test); matcher.get_opcodes()
matcher_get_opcodes(ss, st) == get_opcodes(ss, st)

\* mutant of redlines_for: one Redline that holds the whole opcode list
redlines_for_single(ss, st, opcodes) ==
    <<Redline(Chunk(ss, None), Chunk(st, None), opcodes)>>

\* the list comprehension: one Redline for each opcode
redlines_for(ss, st, opcodes) ==
    [x \in 1..Len(opcodes) |-> Redline(Chunk(ss, None), Chunk(st, None), opcodes[x])]

\* what process returns for the token lists ss and st
process_return(ss, st) == redlines_for(ss, st, matcher_get_opcodes(ss, st))

\* process, one action for each of its statements.  A statement reads or writes
\* the processor's source or test at most once, so callers that share a
\* processor interleave statement by statement; tokenizer_type is only read.
Callers == DOMAIN pc

\* self.source = source
AssignSource(t) ==
    /\ pc[t] = "assign_source"
    /\ self_source' = arg_source[t]
    /\ pc' = [pc EXCEPT ![t] = "assign_test"]
    /\ UNCHANGED <<self_test, tokenizer_type, arg_source, arg_test, seq_source,
                   seq_test, ret, exc, tt_pc, tt_text, tt_choice, tt_ret, tt_exc>>

\* self.test = test
AssignTest(t) ==
    /\ pc[t] = "assign_test"
    /\ self_test' = arg_test[t]
    /\ pc' = [pc EXCEPT ![t] = "tokenize_source"]
    /\ UNCHANGED <<self_source, tokenizer_type, arg_source, arg_test, seq_source,
                   seq_test, ret, exc, tt_pc, tt_text, tt_choice, tt_ret, tt_exc>>

\* seq_source = tokenize_text(concatenate_paragraphs_and_add_chr_182(self.source),
\*                            self.tokenizer_type)
TokenizeSource(t) ==
    /\ pc[t] = "tokenize_source"
    /\ IF tokenize_text_raises(tokenizer_type)
       THEN /\ exc' = [exc EXCEPT ![t] = ValueError(tokenizer_type)]
            /\ pc' = [pc EXCEPT ![t] = "raised"]
            /\ UNCHANGED seq_source
       ELSE /\ seq_source' = [seq_source EXCEPT ![t] =
                  tokenize_text(concatenate_paragraphs_and_add_chr_182(self_source),
                                tokenizer_type)]
            /\ pc' = [pc EXCEPT ![t] = "tokenize_test"]
            /\ UNCHANGED exc
    /\ UNCHANGED <<self_source, self_test, tokenizer_type, arg_source, arg_test,
                   seq_test, ret, tt_pc, tt_text, tt_choice, tt_ret, tt_exc>>

\* seq_test = tokenize_text(concatenate_paragraphs_and_add_chr_182(self.test),
\*                          self.tokenizer_type)
TokenizeTest(t) ==
    /\ pc[t] = "tokenize_test"
    /\ IF tokenize_text_raises(tokenizer_type)
       THEN /\ exc' = [exc EXCEPT ![t] = ValueError(tokenizer_type)]
            /\ pc' = [pc EXCEPT ![t] = "raised"]
            /\ UNCHANGED seq_test
       ELSE /\ seq_test' = [seq_test EXCEPT ![t] =
                  tokenize_text(concatenate_paragraphs_and_add_chr_182(self_test),
                                tokenizer_type)]
            /\ pc' = [pc EXCEPT ![t] = "match"]
            /\ UNCHANGED exc
    /\ UNCHANGED <<self_source, self_test, tokenizer_type, arg_source, arg_test,
                   seq_source, ret, tt_pc, tt_text, tt_choice, tt_ret, tt_exc>>

\* matcher = SequenceMatcher(None, seq_source, seq_test); return [Redline(...) ...]
ReturnRedlines(t) ==
    /\ pc[t] = "match"
    /\ ret' = [ret EXCEPT ![t] = process_return(seq_source[t], seq_test[t])]
    /\ pc' = [pc EXCEPT ![t] = "returned"]
    /\ UNCHANGED <<self_source, self_test, tokenizer_type, arg_source, arg_test,
                   seq_source, seq_test, exc, tt_pc, tt_text, tt_choice, tt_ret, tt_exc>>

\* a direct call tokenize_text(text, choice)
TokenizeText ==
    /\ tt_pc = "call"
    /\ IF tokenize_text_raises(tt_choice)
       THEN /\ tt_exc' = ValueError(tt_choice)
            /\ tt_pc' = "raised"
            /\ UNCHANGED tt_ret
       ELSE /\ tt_ret' = tokenize_text(tt_text, tt_choice)
            /\ tt_pc' = "returned"
            /\ UNCHANGED tt_exc
    /\ UNCHANGED <<self_source, self_test, tokenizer_type, pc, arg_source, arg_test,
                   seq_source, seq_test, ret, exc, tt_text, tt_choice>>

-----------------------------------------------------------------------------
(* Inputs and specifications *)

RECURSIVE TextsOver(_, _)
TextsOver(alphabet, n) ==
    IF n = 0 THEN {<<>>}
    ELSE LET shorter == TextsOver(alphabet, n - 1)
         IN shorter \cup {Append(s, c) : s \in shorter, c \in alphabet}

\* a word character, a parenthesis, a blank and a newline
Alphabet == {"a", "(", " ", "\n"}
Texts == TextsOver(Alphabet, MaxLen)

\* REGEX and a value that is no TokenizerType
Choices == {REGEX, "bogus"}

\* one process call per caller of the set T, on a processor just constructed,
\* with its arguments drawn from Pairs
InitProcess(T, Pairs) ==
    /\ self_source = NoAttr
    /\ self_test = NoAttr
    /\ tokenizer_type \in Choices
    /\ pc = [t \in T |-> "assign_source"]
    /\ \E args \in [T -> Pairs] :
          /\ arg_source = [t \in T |-> args[t][1]]
          /\ arg_test = [t \in T |-> args[t][2]]
    /\ seq_source = [t \in T |-> None]
    /\ seq_test = [t \in T |-> None]
    /\ ret = [t \in T |-> None]
    /\ exc = [t \in T |-> None]
    /\ tt_pc = "idle"
    /\ tt_text = None
    /\ tt_choice = None
    /\ tt_ret = None
    /\ tt_exc = None

NextProcess ==
    \/ \E t \in Callers : AssignSource(t)
    \/ \E t \in Callers : AssignTest(t)
    \/ \E t \in Callers : TokenizeSource(t)
    \/ \E t \in Callers : TokenizeTest(t)
    \/ \E t \in Callers : ReturnRedlines(t)

NextTokenize == TokenizeText

\* one caller, any two texts
Init == InitProcess({1}, Texts \X Texts)
Spec == Init /\ [][NextProcess]_vars

\* one caller, two texts of parentheses: every parenthesis is one token
ParenTexts == TextsOver({"(", ")"}, MaxParens)
InitAlign == InitProcess({1}, ParenTexts \X ParenTexts)
SpecAlign == InitAlign /\ [][NextProcess]_vars

\* one caller, the test text the source text, a newline and one more paragraph
AppendSources == TextsOver({"A", "B", "\n"}, MaxLen)
NewParagraphs == {<<"C">>, <<"B">>, <<"C", " ", "C">>, <<"(">>}
InitAppend ==
    InitProcess({1}, {<<s, s \o <<"\n">> \o p>> : s \in AppendSources, p \in NewParagraphs})
SpecAppend == InitAppend /\ [][NextProcess]_vars

\* one caller, a short source text and a test text of about autojunk_min_len tokens
Run(c, n) == [k \in 1..n |-> c]
LongSources == TextsOver({"b", "("}, 2)
LongTests ==
    {pre \o Run("(", n) :
        pre \in {<<>>, <<"a">>},
        n \in (autojunk_min_len - 1 - LongSpread)..(autojunk_min_len + LongSpread)}
InitLong == InitProcess({1}, LongSources \X LongTests)
SpecLong == InitLong /\ [][NextProcess]_vars

\* two callers of one processor, each with its own two one-character texts
ConcTexts == {<<"a">>, <<"(">>}
InitConc == InitProcess({1, 2}, ConcTexts \X ConcTexts)
SpecConc == InitConc /\ [][NextProcess]_vars

\* no process call: one direct call of tokenize_text
InitTokenize ==
    /\ self_source = NoAttr
    /\ self_test = NoAttr
    /\ tokenizer_type = REGEX
    /\ pc = <<>>
    /\ arg_source = <<>>
    /\ arg_test = <<>>
    /\ seq_source = <<>>
    /\ seq_test = <<>>
    /\ ret = <<>>
    /\ exc = <<>>
    /\ tt_pc = "call"
    /\ tt_text \in Texts
    /\ tt_choice \in Choices
    /\ tt_ret = None
    /\ tt_exc = None
SpecTokenize == InitTokenize /\ [][NextTokenize]_vars

-----------------------------------------------------------------------------
(* The claims *)

\* the opcodes of the Redlines a call returned, in order
OpcodesOf(redlines) == [x \in 1..Len(redlines) |-> redlines[x].opcodes]

HasNonSpace(text) == \E k \in 1..Len(text) : ~IsSpace(text[k])

\* C1: the opcodes process returns tile both token sequences: the first starts
\* at i1 = j1 = 0, each later one starts where the one before it ends, the last
\* ends at the two lengths, and the list is empty only when both sequences are.
C1_OpcodesTile ==
    \A t \in Callers : pc[t] = "returned" =>
        LET ops == OpcodesOf(ret[t])
            n == Len(ops)
        IN /\ n = 0 => Len(seq_source[t]) = 0 /\ Len(seq_test[t]) = 0
           /\ n > 0 => /\ ops[1][2] = 0 /\ ops[1][4] = 0
                       /\ ops[n][3] = Len(seq_source[t])
                       /\ ops[n][5] = Len(seq_test[t])
           /\ \A x \in 1..n : ops[x][2] <= ops[x][3] /\ ops[x][4] <= ops[x][5]
           /\ \A x \in 2..n : ops[x][2] = ops[x - 1][3] /\ ops[x][4] = ops[x - 1][5]

\* a call returned at least three opcodes
C1_Witness ==
    \E t \in Callers : pc[t] = "returned" /\ Len(ret[t]) >= 3

C3_RoundTrip ==
    tt_pc = "returned" => Concat(tt_ret) = tt_text

\* what a process call alone returns for its arguments under REGEX
ProcessAlone(source, test) ==
    process_return(tokenize_text(concatenate_paragraphs_and_add_chr_182(source), REGEX),
                   tokenize_text(concatenate_paragraphs_and_add_chr_182(test), REGEX))

\* C4: a process call that runs while another runs on the same processor
\* returns what it returns alone on its own arguments.
C4_CallsIndependent ==
    \A t \in Callers : pc[t] = "returned" => ret[t] = ProcessAlone(arg_source[t], arg_test[t])

\* C5: an equal opcode spans as many source tokens as test tokens, and the
\* tokens it spans are the same, position by position.
C5_EqualIsEqual ==
    \A t \in Callers : pc[t] = "returned" =>
        \A x \in 1..Len(ret[t]) :
            LET op == ret[t][x].opcodes
            IN op[1] = "equal" =>
                /\ 0 <= op[2] /\ op[2] <= op[3] /\ op[3] <= Len(seq_source[t])
                /\ 0 <= op[4] /\ op[4] <= op[5] /\ op[5] <= Len(seq_test[t])
                /\ op[3] - op[2] = op[5] - op[4]
                /\ \A d \in 1..(op[3] - op[2]) :
                      seq_source[t][op[2] + d] = seq_test[t][op[4] + d]

\* a call returned an equal opcode of two tokens or more that starts at
\* different places of the two sequences
C5_Witness ==
    \E t \in Callers : pc[t] = "returned" /\
        \E x \in 1..Len(ret[t]) :
            /\ ret[t][x].opcodes[1] = "equal"
            /\ ret[t][x].opcodes[3] - ret[t][x].opcodes[2] >= 2
            /\ ret[t][x].opcodes[2] # ret[t][x].opcodes[4]

\* C6 as claimed: a token sequence aligned with itself gives the one opcode
\* (equal, 0, len, 0, len), the empty sequence included.
C6_SelfIsOneEqual ==
    \A t \in Callers : pc[t] = "returned" /\ seq_source[t] = seq_test[t] =>
        OpcodesOf(ret[t]) =
            << <<"equal", 0, Len(seq_source[t]), 0, Len(seq_source[t])>> >>

\* C6 as amended: a token sequence that is not empty, aligned with itself,
\* gives the one opcode (equal, 0, len, 0, len); the empty sequence gives no
\* opcode.
C6_SelfIsOneEqualOrNone ==
    \A t \in Callers : pc[t] = "returned" /\ seq_source[t] = seq_test[t] =>
        OpcodesOf(ret[t]) =
            IF Len(seq_source[t]) = 0 THEN <<>>
            ELSE << <<"equal", 0, Len(seq_source[t]), 0, Len(seq_source[t])>> >>

\* a call aligned a sequence of three tokens or more, not all the same, with itself
C6_Witness ==
    \E t \in Callers :
        /\ pc[t] = "returned"
        /\ seq_source[t] = seq_test[t]
        /\ Len(seq_source[t]) >= 3
        /\ \E x \in 1..Len(seq_source[t]) : seq_source[t][x] # seq_source[t][1]
        /\ Len(ret[t]) = 1

\* C7: with the test text the source text, a newline and one more paragraph,
\* the opcodes end with an insert of the pilcrow token and the new paragraph's
\* tokens, after an equal opcode that covers all the source tokens.
C7_AppendIsInsert ==
    \A t \in Callers : pc[t] = "returned" /\ Len(seq_source[t]) > 0 =>
        LET ops == OpcodesOf(ret[t])
            n == Len(ops)
            L == Len(seq_source[t])
        IN /\ n >= 2
           /\ ops[n] = <<"insert", L, L, L, Len(seq_test[t])>>
           /\ ops[n - 1] = <<"equal", 0, L, 0, L>>
           /\ Len(seq_test[t]) > L
           /\ seq_test[t][L + 1] = <<chr_182, " ">>

\* C8 as claimed: an empty source text and a test text that is not empty give
\* the one opcode (insert, 0, 0, 0, n), n the number of test tokens; a source
\* text that is not empty and an empty test text give (delete, 0, n, 0, 0).
C8_EmptyAgainstNonEmpty ==
    \A t \in Callers : pc[t] = "returned" =>
        /\ arg_source[t] = <<>> /\ arg_test[t] # <<>> =>
              OpcodesOf(ret[t]) = << <<"insert", 0, 0, 0, Len(seq_test[t])>> >>
        /\ arg_test[t] = <<>> /\ arg_source[t] # <<>> =>
              OpcodesOf(ret[t]) = << <<"delete", 0, Len(seq_source[t]), 0, 0>> >>

\* C8 as amended: an empty source text and a test text with a character that is
\* not whitespace give the one opcode (insert, 0, 0, 0, n), n >= 1 the number
\* of test tokens; a test text of whitespace only gives no opcode.  The same
\* with source and test exchanged, and delete (delete, 0, n, 0, 0) for insert.
C8_EmptyAgainstText ==
    \A t \in Callers : pc[t] = "returned" =>
        /\ arg_source[t] = <<>> =>
              /\ Len(seq_source[t]) = 0
              /\ OpcodesOf(ret[t]) =
                    IF HasNonSpace(arg_test[t])
                    THEN << <<"insert", 0, 0, 0, Len(seq_test[t])>> >>
                    ELSE <<>>
              /\ HasNonSpace(arg_test[t]) => Len(seq_test[t]) >= 1
        /\ arg_test[t] = <<>> =>
              /\ Len(seq_test[t]) = 0
              /\ OpcodesOf(ret[t]) =
                    IF HasNonSpace(arg_source[t])
                    THEN << <<"delete", 0, Len(seq_source[t]), 0, 0>> >>
                    ELSE <<>>
              /\ HasNonSpace(arg_source[t]) => Len(seq_source[t]) >= 1

\* a call with an empty source text returned one insert of two tokens or more
C8_Witness ==
    \E t \in Callers :
        /\ pc[t] = "returned"
        /\ arg_source[t] = <<>>
        /\ Len(ret[t]) = 1
        /\ ret[t][1].opcodes[1] = "insert"
        /\ ret[t][1].opcodes[5] >= 2

\* C9: with a tokenizer choice that is no strategy, process raises a ValueError
\* that names the choice, returns no Redline, and leaves source and test as
\* they were before the call (not set: the call is the processor's first).
C9_FailedCallChangesNothing ==
    \A t \in Callers : pc[t] = "raised" =>
        /\ exc[t] = ValueError(tokenizer_type)
        /\ ret[t] = None
        /\ self_source = NoAttr
        /\ self_test = NoAttr

\* C10: a replace opcode has both ranges not empty, and no token of its source
\* range is a token of its test range, however long the sequences.
C10_ReplaceSharesNoToken ==
    \A t \in Callers : pc[t] = "returned" =>
        \A x \in 1..Len(ret[t]) :
            LET op == ret[t][x].opcodes
            IN op[1] = "replace" =>
                /\ op[2] < op[3]
                /\ op[4] < op[5]
                /\ \A i \in (op[2] + 1)..op[3] : \A j \in (op[4] + 1)..op[5] :
                      seq_source[t][i] # seq_test[t][j]

====
